---- MODULE Spec2Model ----
(***************************************************************************)
(* A state-machine model of the Egressus Melodiam stepped-CV sequencer     *)
(* (src/software/contrib/egressus_melodiam.py): the main poll loop, the    *)
(* clock-edge and button interrupt handlers, the pattern bank and the      *)
(* slew curve generator.                                                   *)
(*                                                                         *)
(* Voltages are integers in millivolts (the bank rounds to 3 decimals);    *)
(* curve values are exact rationals <<numerator, denominator>> in mV.      *)
(* Time is the number of milliseconds since the last rising clock edge,    *)
(* advanced along a chain of sample points.                                *)
(***************************************************************************)
EXTENDS Integers, Sequences, FiniteSets, TLC

(***************************************************************************)
(* Bounds of the model.                                                    *)
(***************************************************************************)
\* Steps per pattern.  The program uses 32 (self.maxStepLength); the model
\* is checked with a shorter pattern.
maxStepLength == 4
\* Rising edges handled between two idle resets (clockStep is unbounded).
MaxClockStep == 4
\* Distinct outcomes of one round of random pattern generation.
NumSeeds == 2
\* Allocation failures injected in one session.
MaxAllocFailures == 1
\* Power cycles (restart from the persisted snapshot).
MaxRestarts == 1
\* Largest point count handed to a slew shape on its own (the program: 40).
MaxShapeNum == 5

(***************************************************************************)
(* Program constants.                                                      *)
(***************************************************************************)
maxRandomPatterns == 4
maxCvVoltage == 9
resetTimeout == 10000
NumChannels == 6
selectedCycleMode == 0
MaxSlewResolution == 40
MsPerSlewPoint == 15
NumSlewShapes == 10
\* self.minAnalogInputVoltage = 0.5, in tenths
minAnalogInputVoltageTenths == 5
\* the two fixed extremes with the upper one a volt higher
voltageExtremesOvershoot == <<0, 11000>>
\* self.voltageExtremes = [0, 10], in mV
voltageExtremes == <<0, 10000>>

cycleModes ==
    << <<0,0,0,0>>, <<0,1,0,1>>, <<0,0,0,1>>, <<0,0,1,1>>,
       <<1,2,1,2>>, <<1,1,1,2>>, <<1,1,2,2>>, <<0,0,1,2>>,
       <<2,3,2,3>>, <<2,2,2,3>>, <<2,2,3,3>>, <<0,1,2,3>> >>

\* self.cycleModes[self.selectedCycleMode]
cycleCode == cycleModes[selectedCycleMode + 1]

(***************************************************************************)
(* Arithmetic helpers.                                                     *)
(***************************************************************************)
Min(a, b) == IF a <= b THEN a ELSE b
Max(a, b) == IF a >= b THEN a ELSE b
Abs(a) == IF a >= 0 THEN a ELSE -a

RECURSIVE Gcd(_, _)
Gcd(a, b) == IF b = 0 THEN a ELSE Gcd(b, a % b)

\* The rational n/d (d # 0) in lowest terms with a positive denominator.
Rat(n, d) ==
    LET g == Gcd(Abs(n), Abs(d))
        s == IF d < 0 THEN -1 ELSE 1
    IN  <<(s * n) \div g, (s * d) \div g>>

RatOfInt(n) == <<n, 1>>

(***************************************************************************)
(* Slew shapes.  Each returns [ok, w]: ok = FALSE stands for the           *)
(* ZeroDivisionError the Python raises, w is the list returned.            *)
(***************************************************************************)
Returned(w) == [ok |-> TRUE, w |-> w]
Raised == [ok |-> FALSE, w |-> <<>>]

stepUpStepDown(start, stop, num) ==
    Returned([i \in 1..Max(num - 1, 0) |-> RatOfInt(stop)])

\* val = ((diff * i) + start), diff = (stop - start) / num
LinVal(start, stop, num, i) == Rat(start * num + (stop - start) * i, num)

\* linspace starting its loop at 1, as ramp does
linspaceFromOne(start, stop, num) ==
    IF num = 0 THEN Raised
    ELSE Returned([k \in 1..(num - 1) |-> LinVal(start, stop, num, k)])

linspace(start, stop, num) ==
    IF num = 0 THEN Raised
    ELSE Returned([k \in 1..(num - 1) |-> LinVal(start, stop, num, k - 1)])

\* ramp sloping in both directions
rampSlopingDown(start, stop, num) ==
    IF num = 0 THEN Raised
    ELSE Returned([k \in 1..(num - 1) |-> LinVal(start, stop, num, k)])

\* for i in range(1, num) when stop >= start, else num - 1 times stop
ramp(start, stop, num) ==
    IF stop >= start
    THEN IF num = 0 THEN Raised
         ELSE Returned([k \in 1..(num - 1) |-> LinVal(start, stop, num, k)])
    ELSE Returned([i \in 1..Max(num - 1, 0) |-> RatOfInt(stop)])

saw(start, stop, num) ==
    IF stop >= start
    THEN Returned([i \in 1..Max(num - 1, 0) |-> RatOfInt(stop)])
    ELSE IF num = 0 THEN Raised
         ELSE Returned([k \in 1..(num - 1) |-> LinVal(start, stop, num, k)])

\* x = 1 - ((stop - float(start))/(i)) + (stop-1), in mV (1 V = 1000 mV)
LogVal(start, stop, i) ==
    LET j == Max(i, 1)
    IN  Rat((1000 + (stop - 1000)) * j - (stop - start), j)

\* logUpStepDown with its index running from 1
logUpStepDownFromOne(start, stop, num) ==
    IF stop >= start
    THEN Returned([k \in 1..Max(num - 1, 0) |-> LogVal(start, stop, k)])
    ELSE Returned([i \in 1..Max(num - 1, 0) |-> RatOfInt(stop)])

\* for i in range(num-1): i = max(i, 1) when stop >= start
logUpStepDown(start, stop, num) ==
    IF stop >= start
    THEN Returned([k \in 1..Max(num - 1, 0) |-> LogVal(start, stop, k - 1)])
    ELSE Returned([i \in 1..Max(num - 1, 0) |-> RatOfInt(stop)])

stepUpExpDown(start, stop, num) ==
    IF stop <= start
    THEN Returned([k \in 1..Max(num - 1, 0) |-> LogVal(start, stop, k - 1)])
    ELSE Returned([i \in 1..num |-> RatOfInt(stop)])

\* math.cos(pi/2 * k/n) for k >= 0, n > 0, as a rational.  Quadrants are
\* folded exactly; inside a quadrant the cosine is Bhaskara's rational
\* approximation 4(1 - t^2)/(4 + t^2), t = k/n, which is exact at t = 0,
\* t = 2/3 and t = 1 and within 0.002 elsewhere.
CosQuarter(k, n) == Rat(4 * (n * n - k * k), 4 * n * n + k * k)

CosTurn(k, n) ==
    LET q == (k \div n) % 4
        r == k % n
        c == CosQuarter(r, n)
        s == CosQuarter(n - r, n)
    IN  CASE q = 0 -> c
          [] q = 1 -> <<-s[1], s[2]>>
          [] q = 2 -> <<-c[1], c[2]>>
          [] OTHER -> s

\* round(x, 4) of a rational in mV: to the nearest tenth of a millivolt
Round4(p) ==
    LET whole == p[1] \div p[2]
        frac == p[1] % p[2]
        t == 10 * whole + (20 * frac + p[2]) \div (2 * p[2])
    IN  Rat(t, 10)

\* round(amplitude + amplitude * cos(2 pi f i / n) + amplitudeOffset, 4);
\* amp2 is twice the amplitude, k counts quarter turns in units of 1/n.
CosVal(amp2, off, k, n) ==
    LET c == CosTurn(k, n)
    IN  Round4(Rat(amp2 * (c[2] + c[1]) + 2 * off * c[2], 2 * c[2]))

\* smooth without its last sample
smoothDroppingLast(start, stop, sampleRate) ==
    LET amp2 == Abs(stop - start)
        startOffset == IF start <= stop THEN sampleRate ELSE 0
        amplitudeOffset == IF start <= stop THEN start ELSE stop
    IN  Returned([k \in 1..(sampleRate - 1) |->
            CosVal(amp2, amplitudeOffset, 2 * (k - 1 + startOffset), sampleRate)])

\* freqHz = 0.5: the angle of sample i is pi * i / n, i.e. 2i quarter units
smooth(start, stop, sampleRate) ==
    LET amp2 == Abs(stop - start)
        startOffset == IF start <= stop THEN sampleRate ELSE 0
        amplitudeOffset == IF start <= stop THEN start ELSE stop
    IN  Returned([k \in 1..sampleRate |->
            CosVal(amp2, amplitudeOffset, 2 * (k - 1 + startOffset), sampleRate)])

\* The three quarter-cosine shapes: freqHz = 0.25, angle pi/2 * i / n
QuarterCos(amp, startOffset, amplitudeOffset, sampleRate) ==
    Returned([k \in 1..sampleRate |->
        CosVal(2 * amp, amplitudeOffset, k - 1 + startOffset, sampleRate)])

expUpexpDown(start, stop, sampleRate) ==
    IF start <= stop
    THEN QuarterCos(Abs(stop - start), sampleRate * 2, start, sampleRate)
    ELSE QuarterCos(Abs(stop - start), sampleRate, stop, sampleRate)

sharkTooth(start, stop, sampleRate) ==
    IF start <= stop
    THEN QuarterCos(Abs(stop - start), sampleRate * 3,
                    start - Abs(stop - start), sampleRate)
    ELSE QuarterCos(Abs(stop - start), sampleRate, stop, sampleRate)

\* amplitudeOffset = 1 - (amplitude - stop + 1), in mV
sharkToothReverse(start, stop, sampleRate) ==
    IF start <= stop
    THEN QuarterCos(Abs(stop - start), sampleRate * 2, start, sampleRate)
    ELSE QuarterCos(Abs(stop - start), 0,
                    1000 - (Abs(stop - start) - stop + 1000), sampleRate)

\* self.slewShapes[shape](start, stop, num)
slewShapes(shape, start, stop, num) ==
    CASE shape = 0 -> stepUpStepDown(start, stop, num)
      [] shape = 1 -> linspace(start, stop, num)
      [] shape = 2 -> ramp(start, stop, num)
      [] shape = 3 -> saw(start, stop, num)
      [] shape = 4 -> logUpStepDown(start, stop, num)
      [] shape = 5 -> stepUpExpDown(start, stop, num)
      [] shape = 6 -> smooth(start, stop, num)
      [] shape = 7 -> expUpexpDown(start, stop, num)
      [] shape = 8 -> sharkTooth(start, stop, num)
      [] OTHER -> sharkToothReverse(start, stop, num)

(***************************************************************************)
(* The pattern bank.                                                       *)
(***************************************************************************)
Channels == 0..(NumChannels - 1)
Seeds == 0..(NumSeeds - 1)

\* generateRandomPattern one step short
generateRandomPatternShort(g, c) ==
    [s \in 1..(maxStepLength - 1) |->
        1000 * ((3 * g + c + 2 * s) % (maxCvVoltage + 1))]

\* generateRandomPattern: maxStepLength draws of round(uniform(0, 9), 3).
\* Draw g of channel c stands for one outcome of the random sampling.
generateRandomPattern(g, c) ==
    [s \in 1..maxStepLength |-> 1000 * ((3 * g + c + 2 * s) % (maxCvVoltage + 1))]

\* The first channel (0-based) at which pattern[slot] = ... raises IndexError
SlotMissingAt(bank, slot) ==
    LET bad == {c \in Channels : slot >= Len(bank[c + 1])}
    IN  IF bad = {} THEN NumChannels
        ELSE CHOOSE c \in bad : \A d \in bad : c <= d

\* generateNewRandomCVPattern(new): f is the channel at which an exception
\* (MemoryError) is raised while its pattern is generated, NumChannels if
\* none is.  The channels before the failing one have been written.
generateNewRandomCVPattern(bank, slot, new, f, g) ==
    IF new
    THEN [ok |-> f >= NumChannels,
          bank |-> [c \in 1..NumChannels |->
                        IF c - 1 < f
                        THEN Append(bank[c], generateRandomPattern(g, c - 1))
                        ELSE bank[c]]]
    ELSE LET stop == Min(f, SlotMissingAt(bank, slot))
         IN  [ok |-> stop >= NumChannels,
              bank |-> [c \in 1..NumChannels |->
                            IF c - 1 < stop
                            THEN [bank[c] EXCEPT ![slot + 1] =
                                      generateRandomPattern(g, c - 1)]
                            ELSE bank[c]]]

\* initCvPatternBanks: maxRandomPatterns rounds of generation, the results
\* of which it ignores.  The first `good` rounds succeed, round n drawing
\* outcome n % NumSeeds; the later ones fail to allocate before channel 0.
RECURSIVE InitBanksFrom(_, _, _)
InitBanksFrom(bank, n, good) ==
    IF n = maxRandomPatterns THEN bank
    ELSE InitBanksFrom(
             generateNewRandomCVPattern(bank, 0, TRUE,
                                        IF n < good THEN NumChannels ELSE 0,
                                        n % NumSeeds).bank,
             n + 1, good)

initCvPatternBanks(good) ==
    InitBanksFrom([c \in 1..NumChannels |-> <<>>], 0, good)

(***************************************************************************)
(* State.                                                                  *)
(***************************************************************************)
VARIABLES
    step, firstStep, patternLength, clockStep, CvPattern, numCvPatterns,
    cycleMode, cycleStep, screenRefreshNeeded,
    cvPatternBanks,
    slewResolution, msBetweenClocks, slewArray, slewGeneratorObject,
    slewShape, voltageExtremeFlipFlop,
    cvs,            \* the six outputs: cvs[0] a rational, cvs[1..4] mV, cvs[5] 0/1
    saved,          \* the persisted snapshot (save_state_json)
    elapsed,        \* ms since din.last_triggered()
    sinceStamp,     \* ms since self.lastClockTime
    pc, v,          \* position of main() and its local v
    \* history variables, read only by the properties
    lastOp,         \* the operation that produced this state
    reads,          \* bank indices <<slot, step>> read by the last clock edge
    cv0Log,         \* values written to cvs[0] since the last curve installation
    resets,         \* idle resets since the last rising edge
    shapeCall,      \* the call of a slew shape the last operation made
    emitStamped,    \* lastSlewVoltageOutput was set since the last cadence test
    extremeCall,    \* <<start, stop>> of the last shape call of a 2-step pattern
    prevStop,       \* <<stop>> of the curve the last edge built from the bank, if
                    \* no press, input change or reset has followed it
    ticksWrapped,   \* ticks_ms() has wrapped around since self.lastClockTime
    allocFailures,  \* allocation failures so far
    restarts        \* power cycles so far

vars == <<step, firstStep, patternLength, clockStep, CvPattern, numCvPatterns,
          cycleMode, cycleStep, screenRefreshNeeded, cvPatternBanks,
          slewResolution, msBetweenClocks, slewArray, slewGeneratorObject,
          slewShape, voltageExtremeFlipFlop, cvs, saved, elapsed, sinceStamp,
          pc, v, lastOp, reads, cv0Log, resets, shapeCall, emitStamped,
          ticksWrapped, extremeCall, prevStop, allocFailures, restarts>>

seqVars == <<step, firstStep, patternLength, clockStep, CvPattern,
             numCvPatterns, cycleMode, cycleStep>>
slewVars == <<slewResolution, msBetweenClocks, slewArray, slewGeneratorObject,
              slewShape, voltageExtremeFlipFlop>>

NoFile == [cvPatternBanks |-> <<>>]
NoV == <<>>
NoCall == <<>>

\* One call self.slewShapes[shape](start, stop, num) with its outcome
ShapeCallOf(shape, start, stop, num) ==
    <<[shape |-> shape, start |-> start, stop |-> stop, num |-> num,
       result |-> slewShapes(shape, start, stop, num)]>>

\* self.slewResolution = 50
InitialSlewResolution == 50

\* self.patternLength = 16, half of maxStepLength
InitialPatternLength == maxStepLength \div 2

\* EuroPiScript.save_state_json and load_state_json: the file holds the
\* dictionary that was saved, and loading returns what the file holds
save_state_json(state) == state
load_state_json(file) == file

\* saveState: the dictionary handed to save_state_json
Snapshot(bank, cm, slot, shape) ==
    [cvPatternBanks |-> bank, cycleMode |-> cm, CvPattern |-> slot,
     slewShape |-> shape]

\* loadState initializing the bank whatever the file holds
loadStateReinit(file, good) ==
    LET state == load_state_json(file)
        has(k) == k \in DOMAIN state
        bank == initCvPatternBanks(good)
        cm == IF has("cycleMode") THEN state.cycleMode ELSE FALSE
        slot0 == IF has("CvPattern") THEN state.CvPattern ELSE 0
        shape == IF has("slewShape") THEN state.slewShape ELSE 0
        slot == IF cm THEN cycleCode[0 + 1] ELSE slot0
    IN  [cvPatternBanks |-> bank, cycleMode |-> cm, CvPattern |-> slot,
         slewShape |-> shape, numCvPatterns |-> Len(bank[1])]

\* loadState applied to the file contents `file`: the fields it sets
loadState(file, good) ==
    LET state == load_state_json(file)
        has(k) == k \in DOMAIN state
        bank0 == state.cvPatternBanks
        bank == IF Len(bank0) = 0 THEN initCvPatternBanks(good) ELSE bank0
        cm == IF has("cycleMode") THEN state.cycleMode ELSE FALSE
        slot0 == IF has("CvPattern") THEN state.CvPattern ELSE 0
        shape == IF has("slewShape") THEN state.slewShape ELSE 0
        slot == IF cm THEN cycleCode[0 + 1] ELSE slot0
    IN  [cvPatternBanks |-> bank, cycleMode |-> cm, CvPattern |-> slot,
         slewShape |-> shape, numCvPatterns |-> Len(bank[1])]

\* The snapshot an earlier session leaves that initialized its bank without
\* failure and then saved with the given cycle mode, slot and shape
EarlierFile(cm, slot, shape) ==
    Snapshot(initCvPatternBanks(maxRandomPatterns), cm, slot, shape)

\* The operation that produced a state, for the properties
Op(name) == [op |-> name, wrap |-> FALSE, curve |-> "none"]
RiseOp(wrap, curve) == [op |-> "rise", wrap |-> wrap, curve |-> curve]
\* The release of a button after a press of d ms
PressOp(d, name) ==
    [op |-> name, wrap |-> FALSE, curve |-> "none", press |-> d]

\* __init__ with the snapshot file `file`: the fields of the new object,
\* the outputs (all off) and the file it leaves
Boot(file, good) ==
    LET ld == loadState(file, good)
    IN  [step |-> 0, firstStep |-> 0, clockStep |-> 0,
         patternLength |-> InitialPatternLength,
         screenRefreshNeeded |-> TRUE,
         cycleStep |-> 0,
         cycleMode |-> ld.cycleMode,
         CvPattern |-> ld.CvPattern,
         numCvPatterns |-> ld.numCvPatterns,
         cvPatternBanks |-> ld.cvPatternBanks,
         slewShape |-> ld.slewShape,
         slewResolution |-> InitialSlewResolution,
         slewArray |-> <<>>,
         msBetweenClocks |-> 0,
         slewGeneratorObject |-> [arr |-> <<RatOfInt(0)>>, pos |-> 0],
         voltageExtremeFlipFlop |-> FALSE,
         cvs |-> [c \in Channels |-> IF c = 0 THEN RatOfInt(0) ELSE 0],
         saved |-> save_state_json(Snapshot(ld.cvPatternBanks, ld.cycleMode,
                                            ld.CvPattern, ld.slewShape))]

InitFrom(files, goods) ==
    \E file \in files, good \in goods :
        LET b == Boot(file, good)
        IN  /\ step = b.step
            /\ firstStep = b.firstStep
            /\ clockStep = b.clockStep
            /\ patternLength = b.patternLength
            /\ screenRefreshNeeded = b.screenRefreshNeeded
            /\ cycleStep = b.cycleStep
            /\ cycleMode = b.cycleMode
            /\ CvPattern = b.CvPattern
            /\ numCvPatterns = b.numCvPatterns
            /\ cvPatternBanks = b.cvPatternBanks
            /\ slewShape = b.slewShape
            /\ slewResolution = b.slewResolution
            /\ slewArray = b.slewArray
            /\ msBetweenClocks = b.msBetweenClocks
            /\ slewGeneratorObject = b.slewGeneratorObject
            /\ voltageExtremeFlipFlop = b.voltageExtremeFlipFlop
            /\ cvs = b.cvs
            /\ saved = b.saved
            /\ elapsed = 0
            /\ sinceStamp = 0
            /\ pc = "updateScreen"
            /\ v = NoV
            /\ lastOp = Op("boot")
            /\ reads = {}
            /\ cv0Log = <<>>
            /\ resets = 0
            /\ shapeCall = NoCall
            /\ emitStamped = FALSE
            /\ ticksWrapped = FALSE
            /\ extremeCall = NoCall
            /\ prevStop = NoCall
            /\ allocFailures = 0
            /\ restarts = 0

\* A power cycle: the program starts again from the persisted snapshot
Restart ==
    /\ restarts < MaxRestarts
    /\ LET b == Boot(saved, maxRandomPatterns)
       IN  /\ step' = b.step
           /\ firstStep' = b.firstStep
           /\ clockStep' = b.clockStep
           /\ patternLength' = b.patternLength
           /\ screenRefreshNeeded' = b.screenRefreshNeeded
           /\ cycleStep' = b.cycleStep
           /\ cycleMode' = b.cycleMode
           /\ CvPattern' = b.CvPattern
           /\ numCvPatterns' = b.numCvPatterns
           /\ cvPatternBanks' = b.cvPatternBanks
           /\ slewShape' = b.slewShape
           /\ slewResolution' = b.slewResolution
           /\ slewArray' = b.slewArray
           /\ msBetweenClocks' = b.msBetweenClocks
           /\ slewGeneratorObject' = b.slewGeneratorObject
           /\ voltageExtremeFlipFlop' = b.voltageExtremeFlipFlop
           /\ cvs' = b.cvs
           /\ saved' = b.saved
    /\ elapsed' = 0
    /\ sinceStamp' = 0
    /\ pc' = "updateScreen"
    /\ v' = NoV
    /\ lastOp' = Op("boot")
    /\ reads' = {}
    /\ shapeCall' = NoCall
    /\ cv0Log' = <<>>
    /\ resets' = 0
    /\ emitStamped' = FALSE
    /\ ticksWrapped' = FALSE
    /\ extremeCall' = NoCall
    /\ prevStop' = NoCall
    /\ restarts' = restarts + 1
    /\ UNCHANGED allocFailures

(***************************************************************************)
(* Time.                                                                   *)
(***************************************************************************)
\* Times beyond the idle timeout are not told apart
TimeCap == resetTimeout + 1

\* time.ticks_ms() counts milliseconds modulo a period, 2^30 on the
\* MicroPython port the module runs
TicksPeriod == 1073741824

\* The millisecond counter passes from TicksPeriod - 1 to 0
ticksWrap ==
    /\ ~ticksWrapped
    /\ ticksWrapped' = TRUE
    /\ lastOp' = Op("ticksWrap")
    /\ reads' = {}
    /\ shapeCall' = NoCall
    /\ UNCHANGED <<seqVars, slewVars, screenRefreshNeeded, cvPatternBanks, cvs,
                   saved, elapsed, sinceStamp, pc, v, cv0Log, resets,
                   emitStamped, extremeCall, prevStop, allocFailures, restarts>>

\* Time passes: the time since the last rising edge moves from one sample
\* point of the chain to the next
Tick(chain) ==
    /\ \E i \in 1..(Len(chain) - 1) :
          /\ elapsed = chain[i]
          /\ elapsed' = chain[i + 1]
          /\ sinceStamp' = Min(sinceStamp + (chain[i + 1] - chain[i]), TimeCap)
    /\ lastOp' = Op("tick")
    /\ UNCHANGED emitStamped
    /\ reads' = {}
    /\ shapeCall' = NoCall
    /\ UNCHANGED <<seqVars, slewVars, screenRefreshNeeded, cvPatternBanks, cvs,
                   saved, pc, v, cv0Log, resets, ticksWrapped, extremeCall, prevStop,
                   allocFailures,
                   restarts>>

(***************************************************************************)
(* The clock input.                                                        *)
(***************************************************************************)
\* handleFalingDin
handleFalingDin ==
    /\ cvs' = [cvs EXCEPT ![5] = 0]
    /\ lastOp' = Op("fall")
    /\ UNCHANGED emitStamped
    /\ reads' = {}
    /\ shapeCall' = NoCall
    /\ UNCHANGED <<seqVars, slewVars, screenRefreshNeeded, cvPatternBanks,
                   saved, elapsed, sinceStamp, pc, v, cv0Log, resets,
                   ticksWrapped, extremeCall, prevStop, allocFailures, restarts>>

\* pattern[slot][s] is a valid read of channel c
ReadOK(c, slot, s) ==
    /\ slot < Len(cvPatternBanks[c + 1])
    /\ s < maxStepLength

\* The channel at which the output loop raises IndexError, 5 if none does
OutputLoopStop ==
    LET bad == {c \in 1..4 : ~ReadOK(c, CvPattern, step)}
    IN  IF bad = {} THEN 5 ELSE CHOOSE c \in bad : \A d \in bad : c <= d

\* The step advances within the pattern (lines 95-96) rather than wrapping
StepAdvances(s, fs, pl) ==
    s < maxStepLength - 1 /\ s < (fs + pl) - 1

\* The step after the clock edge
AdvanceStep(s, fs, pl) == IF StepAdvances(s, fs, pl) THEN s + 1 ELSE fs

\* NextCycleStep wrapping one digit early
NextCycleStepEarlyWrap(cs) == IF cs < Len(cycleCode) - 2 THEN cs + 1 ELSE 0

\* Advance the cycle step, unless we are at the end, then reset to 0
NextCycleStep(cs) == IF cs < Len(cycleCode) - 1 THEN cs + 1 ELSE 0

\* int(a / b) for b > 0: int() rounds towards zero
TruncDiv(a, b) == IF a >= 0 THEN a \div b ELSE -((-a) \div b)

\* self.slewResolution = min(40, int(self.msBetweenClocks / 15))
SlewResolutionOf(ms) == Min(MaxSlewResolution, TruncDiv(ms, MsPerSlewPoint))

\* ticks_ms() - self.lastClockTime: a plain difference of two readings of
\* the counter, which is short by one period once the counter has wrapped
TicksSinceLastClock ==
    IF ticksWrapped THEN sinceStamp - TicksPeriod ELSE sinceStamp

\* NextStepOf wrapping one step before the end of the window
NextStepOfWrapEarly(s, fs, pl) == IF s >= (fs + pl) - 2 THEN fs ELSE s + 1

\* nextStep of the curve (lines 125-128)
NextStepOf(s, fs, pl) == IF s = (fs + pl) - 1 THEN fs ELSE s + 1

\* BuildsCurve taking the first edge for a curve-building one
BuildsCurveFromFirstEdge(cs) == cs >= 1

\* if self.clockStep >= 2: the edge measures the interval and builds a curve
BuildsCurve(cs) == cs >= 2

\* NextFlipFlop leaving the flag as it is
NextFlipFlopStuck(ff) == ff

\* self.voltageExtremeFlipFlop = not self.voltageExtremeFlipFlop
NextFlipFlop(ff) == ~ff

\* int(b) of a bool
BoolInt(b) == IF b THEN 1 ELSE 0

\* clockTrigger, preceded by the input's own bookkeeping of last_triggered
clockTrigger ==
    /\ clockStep < MaxClockStep
    /\ elapsed' = 0
    /\ resets' = 0
    /\ UNCHANGED <<firstStep, patternLength, numCvPatterns, cycleMode,
                   cvPatternBanks, slewShape, saved, pc, v, emitStamped,
                   allocFailures, restarts>>
    /\ LET stopAt == OutputLoopStop
           outs == [c \in Channels |->
                      IF c \in 1..4 /\ c < stopAt
                      THEN cvPatternBanks[c + 1][CvPattern + 1][step + 1]
                      ELSE IF c = 5 /\ stopAt = 5
                                /\ step = (firstStep + patternLength) - 1
                           THEN 1
                           ELSE cvs[c]]
       IN
       IF stopAt < 5
       THEN \* IndexError in the output loop: the handler ends there
            /\ cvs' = outs
            /\ reads' = {<<CvPattern, step>>}
            /\ shapeCall' = NoCall
            /\ lastOp' = Op("riseError")
            /\ prevStop' = NoCall
            /\ UNCHANGED <<step, clockStep, CvPattern, cycleStep,
                           screenRefreshNeeded, slewResolution,
                           msBetweenClocks, slewArray, slewGeneratorObject,
                           voltageExtremeFlipFlop, sinceStamp, ticksWrapped, extremeCall,
                           cv0Log>>
       ELSE
       LET wraps == ~StepAdvances(step, firstStep, patternLength)
           step1 == AdvanceStep(step, firstStep, patternLength)
           cycleStep1 == IF wraps /\ cycleMode THEN NextCycleStep(cycleStep)
                         ELSE cycleStep
           slot1 == IF wraps /\ cycleMode THEN cycleCode[cycleStep1 + 1]
                    ELSE CvPattern
           clockStep1 == clockStep + 1
           ms == TicksSinceLastClock
           res == SlewResolutionOf(ms)
           nextStep == NextStepOf(step1, firstStep, patternLength)
           flip == NextFlipFlop(voltageExtremeFlipFlop)
           curveOK == ReadOK(0, slot1, step1) /\ ReadOK(0, slot1, nextStep)
           call == IF patternLength = 2
                   THEN ShapeCallOf(slewShape,
                                    voltageExtremes[BoolInt(flip) + 1],
                                    voltageExtremes[BoolInt(~flip) + 1], res)
                   ELSE IF curveOK
                        THEN ShapeCallOf(slewShape,
                                 cvPatternBanks[1][slot1 + 1][step1 + 1],
                                 cvPatternBanks[1][slot1 + 1][nextStep + 1],
                                 res)
                        ELSE NoCall
           \* an IndexError of the two reads is raised before the call
           curve == IF call = NoCall THEN Raised ELSE call[1].result
           curveReads == IF patternLength = 2 THEN {}
                         ELSE IF ReadOK(0, slot1, step1)
                              THEN {<<slot1, step1>>, <<slot1, nextStep>>}
                              ELSE {<<slot1, step1>>}
       IN  /\ cvs' = outs
           /\ step' = step1
           /\ cycleStep' = cycleStep1
           /\ CvPattern' = slot1
           /\ clockStep' = clockStep1
           /\ screenRefreshNeeded' = TRUE
           /\ prevStop' = IF BuildsCurve(clockStep1) /\ patternLength # 2
                                /\ curve.ok
                          THEN <<call[1].stop>>
                          ELSE NoCall
           /\ extremeCall' = IF BuildsCurve(clockStep1) /\ patternLength = 2
                             THEN <<call[1].start, call[1].stop>>
                             ELSE extremeCall
           /\ IF BuildsCurve(clockStep1)
              THEN /\ msBetweenClocks' = ms
                   /\ slewResolution' = res
                   /\ voltageExtremeFlipFlop' =
                          IF patternLength = 2 THEN flip
                          ELSE voltageExtremeFlipFlop
                   /\ reads' = {<<CvPattern, step>>} \cup curveReads
                   /\ shapeCall' = call
                   /\ IF curve.ok
                      THEN /\ slewArray' = curve.w
                           /\ slewGeneratorObject' = [arr |-> curve.w, pos |-> 0]
                           /\ cv0Log' = <<>>
                           /\ sinceStamp' = 0
                           /\ ticksWrapped' = FALSE
                           /\ lastOp' = RiseOp(wraps, "built")
                      ELSE \* an exception ends the handler before the
                           \* curve and lastClockTime are written
                           /\ lastOp' = RiseOp(wraps, "error")
                           /\ UNCHANGED <<slewArray, slewGeneratorObject,
                                          cv0Log, sinceStamp, ticksWrapped>>
              ELSE /\ sinceStamp' = 0
                   /\ ticksWrapped' = FALSE
                   /\ reads' = {<<CvPattern, step>>}
                   /\ shapeCall' = NoCall
                   /\ lastOp' = RiseOp(wraps, "none")
                   /\ UNCHANGED <<msBetweenClocks, slewResolution,
                                  voltageExtremeFlipFlop, slewArray,
                                  slewGeneratorObject, cv0Log>>

(***************************************************************************)
(* The buttons.                                                            *)
(***************************************************************************)
\* Press durations, ticks_diff(ticks_ms(), b.last_pressed()), in ms
DurationSamples == {300, 301, 2000, 2001, 4999, 5000}
ShortPress == 300
MediumPress == 301
LongPress == 2001

\* Where a round of pattern generation may fail: a channel of `fails`, or
\* NumChannels for a round in which every allocation succeeds
FailChoices(fails) ==
    IF allocFailures < MaxAllocFailures THEN fails \cup {NumChannels}
    ELSE {NumChannels}

\* the shape index advanced without the test for the last shape
NextSlewShapeNoWrap(k) == k + 1

\* if self.slewShape == len(self.slewShapes)-1: 0 else += 1
NextSlewShape(k) == IF k = NumSlewShapes - 1 THEN 0 ELSE k + 1

\* b1Pressed
b1Pressed(durations, fails) ==
    /\ \E d \in durations :
         IF d > 2000 /\ d < 5000
         THEN \* generate new pattern for the existing slot
              \E f \in FailChoices(fails), g \in Seeds :
                  LET r == generateNewRandomCVPattern(cvPatternBanks, CvPattern,
                                                      FALSE, f, g)
                  IN  /\ cvPatternBanks' = r.bank
                      /\ allocFailures' = allocFailures + BoolInt(f < NumChannels)
                      /\ screenRefreshNeeded' = TRUE
                      /\ saved' = save_state_json(
                                      Snapshot(r.bank, cycleMode, CvPattern,
                                               slewShape))
                      /\ lastOp' = PressOp(d, IF r.ok THEN "regenerate"
                                               ELSE "regenerateFailed")
                      /\ UNCHANGED <<CvPattern, slewShape>>
         ELSE IF d > 300
         THEN /\ slewShape' = NextSlewShape(slewShape)
              /\ screenRefreshNeeded' = TRUE
              /\ saved' = save_state_json(
                              Snapshot(cvPatternBanks, cycleMode, CvPattern,
                                       slewShape'))
              /\ lastOp' = PressOp(d, "shape")
              /\ UNCHANGED <<CvPattern, cvPatternBanks, allocFailures>>
         ELSE \* previous pattern, unless we are at the first
              /\ IF CvPattern # 0
                 THEN CvPattern' = CvPattern - 1 /\ screenRefreshNeeded' = TRUE
                 ELSE UNCHANGED <<CvPattern, screenRefreshNeeded>>
              /\ lastOp' = PressOp(d, "previous")
              /\ UNCHANGED <<slewShape, cvPatternBanks, saved, allocFailures>>
    /\ reads' = {}
    /\ shapeCall' = NoCall
    /\ UNCHANGED <<step, firstStep, patternLength, clockStep, numCvPatterns,
                   cycleMode, cycleStep, slewResolution, msBetweenClocks,
                   slewArray, slewGeneratorObject, voltageExtremeFlipFlop, cvs,
                   elapsed, sinceStamp, pc, v, cv0Log, resets, emitStamped,
                   ticksWrapped, extremeCall, restarts>>
    /\ prevStop' = NoCall

\* the test for a next slot taken against the count instead of the last index
HasNextSlotOffByOne(slot, num) == slot < num

\* if self.CvPattern < self.numCvPatterns-1
HasNextSlot(slot, num) == slot < num - 1

\* b2Pressed
b2Pressed(durations, fails) ==
    /\ \E d \in durations :
         IF d > 300 /\ d < 5000
         THEN /\ cycleMode' = ~cycleMode
              /\ screenRefreshNeeded' = TRUE
              /\ lastOp' = PressOp(d, "toggleCycle")
              /\ UNCHANGED <<CvPattern, numCvPatterns, cvPatternBanks, saved,
                             allocFailures>>
         ELSE IF HasNextSlot(CvPattern, numCvPatterns)
         THEN /\ CvPattern' = CvPattern + 1
              /\ screenRefreshNeeded' = TRUE
              /\ lastOp' = PressOp(d, "next")
              /\ UNCHANGED <<cycleMode, numCvPatterns, cvPatternBanks, saved,
                             allocFailures>>
         ELSE IF CvPattern < maxRandomPatterns - 1
         THEN \E f \in FailChoices(fails), g \in Seeds :
                  LET r == generateNewRandomCVPattern(cvPatternBanks, CvPattern,
                                                      TRUE, f, g)
                  IN  /\ cvPatternBanks' = r.bank
                      /\ allocFailures' = allocFailures + BoolInt(f < NumChannels)
                      /\ IF r.ok
                         THEN /\ CvPattern' = CvPattern + 1
                              /\ numCvPatterns' = numCvPatterns + 1
                              /\ saved' = save_state_json(
                                              Snapshot(r.bank, cycleMode,
                                                       CvPattern', slewShape))
                              /\ screenRefreshNeeded' = TRUE
                              /\ lastOp' = PressOp(d, "append")
                         ELSE /\ lastOp' = PressOp(d, "appendFailed")
                              /\ UNCHANGED <<CvPattern, numCvPatterns, saved,
                                             screenRefreshNeeded>>
                      /\ UNCHANGED cycleMode
         ELSE /\ lastOp' = PressOp(d, "appendRefused")
              /\ UNCHANGED <<CvPattern, cycleMode, numCvPatterns, cvPatternBanks,
                             saved, allocFailures, screenRefreshNeeded>>
    /\ reads' = {}
    /\ shapeCall' = NoCall
    /\ UNCHANGED <<step, firstStep, patternLength, clockStep, cycleStep,
                   slewResolution, msBetweenClocks, slewArray,
                   slewGeneratorObject, slewShape, voltageExtremeFlipFlop, cvs,
                   elapsed, sinceStamp, pc, v, cv0Log, resets, emitStamped,
                   ticksWrapped, extremeCall, restarts>>
    /\ prevStop' = NoCall

(***************************************************************************)
(* The controls.  The knob and analogue-input readers are not part of the  *)
(* sources at hand; their ranges are the ones the specification states.    *)
(***************************************************************************)
\* knob.read_position(steps): a position in [0, steps - 1], 0 for steps = 0
ReadPositions(steps) == 0..Max(steps - 1, 0)

\* val = 100 * ain.percent(): sample readings of the analogue input
AinSamples == {0, 50}

\* A poll of the main loop (op is "main") with the readings it took
PollOp(poll, val, k) ==
    [op |-> "main", wrap |-> FALSE, curve |-> "none", poll |-> poll,
     ain |-> val, knob |-> k]

\* getPatternLength without the min() that caps the sum of the two readings
PatternLengthOfUnclamped(val, k) ==
    IF val * 10 > minAnalogInputVoltageTenths
    THEN ((maxStepLength * val) \div 100 + k) + 1
    ELSE k + 1

\* getPatternLength for analogue reading val and knob position k
PatternLengthOf(val, k) ==
    IF val * 10 > minAnalogInputVoltageTenths
    THEN Min((maxStepLength * val) \div 100 + k, maxStepLength - 1) + 1
    ELSE k + 1

(***************************************************************************)
(* main(): one action per statement of the loop body that an interrupt     *)
(* handler can precede or follow.                                          *)
(***************************************************************************)
MainFrame == <<cvPatternBanks, saved, elapsed, sinceStamp, ticksWrapped, extremeCall,
               allocFailures, restarts, slewResolution, msBetweenClocks, slewArray, slewShape,
               voltageExtremeFlipFlop, numCvPatterns, cycleMode>>

\* updateScreen: the test of the dirty flag and, when it is set, the drawing
\* of the displayed fields into the frame buffer (lines 328-397)
updateScreen ==
    /\ pc = "updateScreen"
    /\ pc' = IF screenRefreshNeeded THEN "oledShow" ELSE "getPatternLength"
    /\ lastOp' = Op("main")
    /\ UNCHANGED emitStamped
    /\ reads' = {}
    /\ shapeCall' = NoCall
    /\ UNCHANGED <<MainFrame, prevStop, step, firstStep, patternLength, clockStep,
                   CvPattern, cycleStep, screenRefreshNeeded,
                   slewGeneratorObject, cvs, v, cv0Log, resets>>

\* updateScreen: oled.show() and the flag cleared (lines 399-400)
oledShow ==
    /\ pc = "oledShow"
    /\ screenRefreshNeeded' = FALSE
    /\ pc' = "getPatternLength"
    /\ lastOp' = Op("main")
    /\ UNCHANGED emitStamped
    /\ reads' = {}
    /\ shapeCall' = NoCall
    /\ UNCHANGED <<MainFrame, prevStop, step, firstStep, patternLength, clockStep,
                   CvPattern, cycleStep, slewGeneratorObject, cvs, v, cv0Log,
                   resets>>

getPatternLength(ains, knobs) ==
    /\ pc = "getPatternLength"
    /\ \E val \in ains, k \in ReadPositions(maxStepLength) \cap knobs :
          /\ patternLength' = PatternLengthOf(val, k)
          /\ screenRefreshNeeded' =
                 IF patternLength # patternLength' THEN TRUE
                 ELSE screenRefreshNeeded
          /\ lastOp' = PollOp("length", val, k)
          /\ prevStop' = IF patternLength # patternLength' THEN NoCall
                          ELSE prevStop
    /\ pc' = "getFirstStep"
    /\ UNCHANGED emitStamped
    /\ reads' = {}
    /\ shapeCall' = NoCall
    /\ UNCHANGED <<MainFrame, step, firstStep, clockStep, CvPattern, cycleStep,
                   slewGeneratorObject, cvs, v, cv0Log, resets>>

\* getFirstStep moving the step to the new first step as well
getFirstStepMovingStep(knobs) ==
    /\ pc = "getFirstStep"
    /\ \E k \in ReadPositions(maxStepLength - patternLength) \cap knobs :
          /\ firstStep' = k
          /\ step' = k
          /\ prevStop' = IF firstStep # k THEN NoCall ELSE prevStop
          /\ screenRefreshNeeded' =
                 IF firstStep # k THEN TRUE ELSE screenRefreshNeeded
    /\ pc' = "slewTest"
    /\ lastOp' = Op("main")
    /\ UNCHANGED emitStamped
    /\ reads' = {}
    /\ shapeCall' = NoCall
    /\ UNCHANGED <<MainFrame, patternLength, clockStep, CvPattern,
                   cycleStep, slewGeneratorObject, cvs, v, cv0Log, resets>>

getFirstStep(knobs) ==
    /\ pc = "getFirstStep"
    /\ \E k \in ReadPositions(maxStepLength - patternLength) \cap knobs :
          /\ firstStep' = k
          /\ screenRefreshNeeded' =
                 IF firstStep # k THEN TRUE ELSE screenRefreshNeeded
          /\ lastOp' = PollOp("first", 0, k)
          /\ prevStop' = IF firstStep # k THEN NoCall ELSE prevStop
    /\ pc' = "slewTest"
    /\ UNCHANGED emitStamped
    /\ reads' = {}
    /\ shapeCall' = NoCall
    /\ UNCHANGED <<MainFrame, step, patternLength, clockStep, CvPattern,
                   cycleStep, slewGeneratorObject, cvs, v, cv0Log, resets>>

\* ticks_diff(...) >= (self.msBetweenClocks / self.slewResolution) for a
\* resolution other than 0
EmitDue(el, ms, res) ==
    IF res > 0 THEN el * res >= ms
    ELSE el >= ((-ms) + (-res) - 1) \div (-res)

\* The emit-cadence test of line 246 for a time `el` since the last emission,
\* ticks_diff(ticks_ms(), lastSlewVoltageOutput), drawn from sinceEmit.  The
\* division raises ZeroDivisionError for a zero resolution, which ends main()
slewTest(sinceEmit) ==
    /\ pc = "slewTest"
    /\ IF slewResolution = 0
       THEN pc' = "halted"
       ELSE \E el \in sinceEmit :
                pc' = IF EmitDue(el, msBetweenClocks, slewResolution)
                      THEN "slewNext" ELSE "idleTest"
    /\ lastOp' = Op("main")
    /\ emitStamped' = FALSE
    /\ reads' = {}
    /\ shapeCall' = NoCall
    /\ UNCHANGED <<MainFrame, prevStop, step, firstStep, patternLength, clockStep,
                   CvPattern, cycleStep, screenRefreshNeeded,
                   slewGeneratorObject, cvs, v, cv0Log, resets>>

\* slewNext writing its neutral value to the output when the curve is exhausted
slewNextWritingNeutral ==
    /\ pc = "slewNext"
    /\ IF slewGeneratorObject.pos < Len(slewGeneratorObject.arr)
       THEN /\ v' = <<slewGeneratorObject.arr[slewGeneratorObject.pos + 1]>>
            /\ slewGeneratorObject' =
                   [slewGeneratorObject EXCEPT !.pos = @ + 1]
            /\ pc' = "slewWrite"
            /\ lastOp' = Op("slewNext")
            /\ UNCHANGED <<emitStamped, cvs>>
       ELSE /\ v' = <<RatOfInt(0)>>
            /\ cvs' = [cvs EXCEPT ![0] = RatOfInt(0)]
            /\ pc' = "idleTest"
            /\ emitStamped' = TRUE
            /\ lastOp' = Op("slewExhausted")
            /\ UNCHANGED slewGeneratorObject
    /\ reads' = {}
    /\ shapeCall' = NoCall
    /\ UNCHANGED <<MainFrame, prevStop, step, firstStep, patternLength, clockStep,
                   CvPattern, cycleStep, screenRefreshNeeded, cv0Log, resets>>

\* v = next(self.slewGeneratorObject), or v = 0 on StopIteration
slewNext ==
    /\ pc = "slewNext"
    /\ IF slewGeneratorObject.pos < Len(slewGeneratorObject.arr)
       THEN /\ v' = <<slewGeneratorObject.arr[slewGeneratorObject.pos + 1]>>
            /\ slewGeneratorObject' =
                   [slewGeneratorObject EXCEPT !.pos = @ + 1]
            /\ pc' = "slewWrite"
            /\ lastOp' = Op("slewNext")
            /\ UNCHANGED emitStamped
       ELSE \* StopIteration: v = 0, then lastSlewVoltageOutput = ticks_ms()
            /\ v' = <<RatOfInt(0)>>
            /\ pc' = "idleTest"
            /\ emitStamped' = TRUE
            /\ lastOp' = Op("slewExhausted")
            /\ UNCHANGED slewGeneratorObject
    /\ reads' = {}
    /\ shapeCall' = NoCall
    /\ UNCHANGED <<MainFrame, prevStop, step, firstStep, patternLength, clockStep,
                   CvPattern, cycleStep, screenRefreshNeeded, cvs, cv0Log,
                   resets>>

\* cvs[0].voltage(v), then lastSlewVoltageOutput = ticks_ms()
slewWrite ==
    /\ pc = "slewWrite"
    /\ cvs' = [cvs EXCEPT ![0] = v[1]]
    /\ cv0Log' = Append(cv0Log, v[1])
    /\ v' = NoV
    /\ pc' = "idleTest"
    /\ emitStamped' = TRUE
    /\ lastOp' = Op("slewWrite")
    /\ reads' = {}
    /\ shapeCall' = NoCall
    /\ UNCHANGED <<MainFrame, prevStop, step, firstStep, patternLength, clockStep,
                   CvPattern, cycleStep, screenRefreshNeeded,
                   slewGeneratorObject, resets>>

\* The idle-timeout condition of line 254
IdleTimedOut == clockStep # 0 /\ elapsed > resetTimeout

idleTest ==
    /\ pc = "idleTest"
    /\ pc' = IF IdleTimedOut THEN "idleReset" ELSE "updateScreen"
    \* v is not read again before the next pull assigns it
    /\ v' = NoV
    /\ lastOp' = Op("main")
    /\ UNCHANGED emitStamped
    /\ reads' = {}
    /\ shapeCall' = NoCall
    /\ UNCHANGED <<MainFrame, prevStop, step, firstStep, patternLength, clockStep,
                   CvPattern, cycleStep, screenRefreshNeeded,
                   slewGeneratorObject, cvs, cv0Log, resets>>

\* An idle reset under the selected cycle mode `mode`
ResetOp(mode) ==
    [op |-> "idleReset", wrap |-> FALSE, curve |-> "none", mode |-> mode]

\* Lines 259-260 with cycleStep = 0: the slot after the reset for the cycle
\* code `code`, num patterns and the current slot
IdleResetSlot(code, num, slot) == IF num >= code[0 + 1] THEN code[0 + 1] ELSE slot

\* The resets of lines 256-262 for self.selectedCycleMode among `modes`
idleResetFor(modes) ==
    /\ pc = "idleReset"
    /\ step' = firstStep
    /\ clockStep' = 0
    /\ cycleStep' = 0
    /\ \E mode \in modes :
          /\ CvPattern' = IdleResetSlot(cycleModes[mode + 1], numCvPatterns,
                                        CvPattern)
          /\ lastOp' = ResetOp(mode)
    /\ screenRefreshNeeded' = TRUE
    /\ resets' = resets + 1
    /\ prevStop' = NoCall
    /\ pc' = "updateScreen"
    /\ UNCHANGED emitStamped
    /\ reads' = {}
    /\ shapeCall' = NoCall
    /\ UNCHANGED <<MainFrame, firstStep, patternLength, slewGeneratorObject,
                   cvs, v, cv0Log>>

\* The idle reset of the program, whose selectedCycleMode is always 0
idleReset == idleResetFor({selectedCycleMode})

\* The loop body of main() for given samples of its inputs
MainStep(ains, knobs, sinceEmit) ==
    \/ updateScreen
    \/ oledShow
    \/ getPatternLength(ains, knobs)
    \/ getFirstStep(knobs)
    \/ slewTest(sinceEmit)
    \/ slewNext
    \/ slewWrite
    \/ idleTest
    \/ idleReset

(***************************************************************************)
(* Specifications.  Spec is the whole program over all the input samples.  *)
(* The specifications after it are the ones the properties are checked     *)
(* under: the same actions, each drawing its inputs (files, knob           *)
(* positions, times, press durations) from fewer samples.                  *)
(***************************************************************************)
AllKnobs == 0..maxStepLength
TimeSamples == <<0, 14, 15, 30, 10000, 10001>>

Init ==
    InitFrom({NoFile} \cup {EarlierFile(cm, 0, 0) : cm \in BOOLEAN},
             {maxRandomPatterns - 1, maxRandomPatterns})

Next ==
    \/ Tick(TimeSamples)
    \/ ticksWrap
    \/ clockTrigger
    \/ handleFalingDin
    \/ b1Pressed(DurationSamples, Channels)
    \/ b2Pressed(DurationSamples, Channels)
    \/ MainStep(AinSamples, AllKnobs, {0, MsPerSlewPoint, TimeCap})
    \/ Restart

Spec == Init /\ [][Next]_vars

\* The step sequencer under arbitrary knob movements: clock edges at
\* intervals of 0 and 15 ms against a poll loop that iterates within 1 ms.
InitSeq ==
    InitFrom({EarlierFile(cm, 0, 0) : cm \in BOOLEAN}, {maxRandomPatterns})

TickSeq == Tick(<<0, 15>>)
PollPatternLengthSeq == getPatternLength({0}, AllKnobs)
PollFirstStepSeq == getFirstStep(AllKnobs)
SlewTestSeq == slewTest({0})

NextSeq ==
    \/ TickSeq
    \/ clockTrigger
    \/ handleFalingDin
    \/ updateScreen
    \/ oledShow
    \/ PollPatternLengthSeq
    \/ PollFirstStepSeq
    \/ SlewTestSeq
    \/ slewNext
    \/ slewWrite
    \/ idleTest

SpecSeq == InitSeq /\ [][NextSeq]_vars

\* The slew engine: clock edges 0, 14 or 30 ms apart, the pattern length
\* switched between 1 and maxStepLength, the poll loop either within 1 ms
\* of its last emission or long after it.
SlewKnobs == {0, maxStepLength - 1}
InitSlew == InitFrom({NoFile}, {maxRandomPatterns})

TickSlew == Tick(<<0, 14, 30>>)
PollPatternLengthSlew == getPatternLength({0}, SlewKnobs)
PollFirstStepSlew == getFirstStep(SlewKnobs)
SlewTestSlew == slewTest({0, TimeCap})

NextSlew ==
    \/ TickSlew
    \/ clockTrigger
    \/ handleFalingDin
    \/ updateScreen
    \/ oledShow
    \/ PollPatternLengthSlew
    \/ PollFirstStepSlew
    \/ SlewTestSlew
    \/ slewNext
    \/ slewWrite
    \/ idleTest

SpecSlew == InitSlew /\ [][NextSlew]_vars

\* The idle timeout: the knobs at rest, clock edges 0 or 14 ms apart or
\* absent for 10000 ms and more.  The poll loop runs whenever it can.
IdleKnobs == {0}
InitIdle == InitFrom({NoFile}, {maxRandomPatterns})

TickIdle == Tick(<<0, 14, 10000, 10001>>)
PollPatternLengthIdle == getPatternLength({0}, IdleKnobs)
PollFirstStepIdle == getFirstStep(IdleKnobs)
SlewTestIdle == slewTest({0})

MainIdle ==
    \/ updateScreen
    \/ oledShow
    \/ PollPatternLengthIdle
    \/ PollFirstStepIdle
    \/ SlewTestIdle
    \/ slewNext
    \/ slewWrite
    \/ idleTest
    \/ idleReset

NextIdle ==
    \/ TickIdle
    \/ clockTrigger
    \/ handleFalingDin
    \/ MainIdle

SpecIdle == InitIdle /\ [][NextIdle]_vars /\ WF_vars(MainIdle)

\* The pattern bank: the buttons and power cycles, with allocation failures
\* before channel 0 or channel 3 of a round of generation.  The first
\* session finds no file; its last initial round of generation may fail.
BankFails == {0, 3}
InitBank == InitFrom({NoFile}, {maxRandomPatterns - 1, maxRandomPatterns})

B1Bank == b1Pressed({ShortPress, LongPress}, BankFails)
B2Bank == b2Pressed({ShortPress, MediumPress}, BankFails)

NextBank ==
    \/ B1Bank
    \/ B2Bank
    \/ Restart

SpecBank == InitBank /\ [][NextBank]_vars

\* Playback with every writer of the shared fields: clock edges, button 2
\* (next slot, append), the poll loop and its idle reset.
PlayKnobs == {0}
InitPlay == InitFrom({NoFile}, {maxRandomPatterns - 1})

TickPlay == Tick(<<0, 10001>>)
B2Play == b2Pressed({ShortPress}, {})
PollPatternLengthPlay == getPatternLength({0}, PlayKnobs)
PollFirstStepPlay == getFirstStep(PlayKnobs)
SlewTestPlay == slewTest({0})

NextPlay ==
    \/ TickPlay
    \/ clockTrigger
    \/ B2Play
    \/ updateScreen
    \/ oledShow
    \/ PollPatternLengthPlay
    \/ PollFirstStepPlay
    \/ SlewTestPlay
    \/ slewNext
    \/ slewWrite
    \/ idleTest
    \/ idleReset

SpecPlay == InitPlay /\ [][NextPlay]_vars

\* Power cycles: button 2 steps through the slots, appends (an append may
\* fail at channel 3) and toggles cycle mode, and the program restarts from
\* the snapshot it persisted.
RestoreFails == {3}
InitRestore == InitFrom({NoFile}, {maxRandomPatterns - 1, maxRandomPatterns})
B2Restore == b2Pressed({ShortPress, MediumPress}, RestoreFails)
NextRestore == B2Restore \/ Restart
SpecRestore == InitRestore /\ [][NextRestore]_vars

\* The outputs: rising and falling clock edges and the poll loop, with
\* button 2 stepping through the slots and appending (one append may fail
\* at channel 3) and a power cycle.
PulseKnobs == {0}
PulseFails == {3}
InitPulse == InitFrom({NoFile}, {maxRandomPatterns - 1})

B2Pulse == b2Pressed({ShortPress}, PulseFails)
PollPatternLengthPulse == getPatternLength({0}, PulseKnobs)
PollFirstStepPulse == getFirstStep(PulseKnobs)
SlewTestPulse == slewTest({0})

NextPulse ==
    \/ clockTrigger
    \/ handleFalingDin
    \/ B2Pulse
    \/ Restart
    \/ updateScreen
    \/ oledShow
    \/ PollPatternLengthPulse
    \/ PollFirstStepPulse
    \/ SlewTestPulse
    \/ slewNext
    \/ slewWrite
    \/ idleTest

SpecPulse == InitPulse /\ [][NextPulse]_vars

\* The slew shapes on their own: every shape called with start and stop
\* among sample voltages (the range of the bank and the two extremes) and
\* every point count up to MaxShapeNum.
ShapeVoltages == {0, 1000, 2500, 10000}

ShapeCall ==
    /\ \E shape \in 0..(NumSlewShapes - 1), start, stop \in ShapeVoltages,
          num \in 0..MaxShapeNum :
          shapeCall' = ShapeCallOf(shape, start, stop, num)
    /\ lastOp' = Op("shapeCall")
    /\ reads' = {}
    /\ UNCHANGED <<seqVars, slewVars, screenRefreshNeeded, cvPatternBanks, cvs,
                   saved, elapsed, sinceStamp, pc, v, cv0Log, resets,
                   emitStamped, ticksWrapped, extremeCall, prevStop, allocFailures,
                   restarts>>

InitShape == InitFrom({NoFile}, {maxRandomPatterns})
NextShape == ShapeCall
SpecShape == InitShape /\ [][NextShape]_vars

\* A pattern of four steps played from step 0: the snapshot of an earlier
\* session whose slot 0 of channel 0 holds 1.0, 5.0, 2.0, 8.0 V, knob 2 at
\* the position that selects four steps, clock edges once the knob is read.
ScenarioPattern == <<1000, 5000, 2000, 8000>>
ScenarioLength == Len(ScenarioPattern)

ScenarioFile ==
    LET bank == initCvPatternBanks(maxRandomPatterns)
        pattern == [s \in 1..maxStepLength |->
                       IF s <= ScenarioLength THEN ScenarioPattern[s] ELSE 0]
    IN  Snapshot([bank EXCEPT ![1][1] = pattern], FALSE, 0, 0)

InitScenario == InitFrom({ScenarioFile}, {maxRandomPatterns})

TickScenario == Tick(<<0, 15, 30>>)
PollPatternLengthScenario == getPatternLength({0}, {ScenarioLength - 1})
PollFirstStepScenario == getFirstStep({0})
SlewTestScenario == slewTest({0, MsPerSlewPoint})
ClockScenario ==
    /\ patternLength = ScenarioLength
    /\ firstStep = 0
    /\ clockTrigger

NextScenario ==
    \/ TickScenario
    \/ ClockScenario
    \/ handleFalingDin
    \/ updateScreen
    \/ oledShow
    \/ PollPatternLengthScenario
    \/ PollFirstStepScenario
    \/ SlewTestScenario
    \/ slewNext
    \/ slewWrite
    \/ idleTest

SpecScenario == InitScenario /\ [][NextScenario]_vars

\* The clock: rising edges 0, 14, 15, 600 or 601 ms apart, the millisecond
\* counter wrapping around between two of them, the pattern length switched
\* between 2 and maxStepLength.
ClockIntervals == <<0, 14, 15, 600, 601>>
ClockKnobs == {1, maxStepLength - 1}
InitClock == InitFrom({NoFile}, {maxRandomPatterns})

TickClock == Tick(ClockIntervals)
PollPatternLengthClock == getPatternLength({0}, ClockKnobs)
PollFirstStepClock == getFirstStep({0})
SlewTestClock == slewTest({0})

NextClock ==
    \/ TickClock
    \/ ticksWrap
    \/ clockTrigger
    \/ updateScreen
    \/ oledShow
    \/ PollPatternLengthClock
    \/ PollFirstStepClock
    \/ SlewTestClock
    \/ slewNext
    \/ slewWrite
    \/ idleTest

SpecClock == InitClock /\ [][NextClock]_vars

\* The buttons on their own: button 1 released after presses on both sides
\* of each threshold, button 2 stepping through the slots; a regeneration
\* may fail to allocate at channel 3.
ButtonFails == {3}
InitButton == InitFrom({NoFile}, {maxRandomPatterns})
B1Button == b1Pressed(DurationSamples, ButtonFails)
B2Button == b2Pressed({ShortPress}, {})
NextButton == B1Button \/ B2Button
SpecButton == InitButton /\ [][NextButton]_vars

\* Regeneration: button 1 stepping back or regenerating the current slot
\* (a regeneration may fail to allocate at channel 3), button 2 stepping on.
B1Regen == b1Pressed({ShortPress, LongPress}, ButtonFails)
NextRegen == B1Regen \/ B2Button
SpecRegen == InitButton /\ [][NextRegen]_vars

\* The idle reset as a function of the cycle code and the number of
\* patterns: sessions whose initial generation yields 1..maxRandomPatterns
\* slots, the clock running and stopping, and the reset taken under each
\* of the twelve cycle modes.
CycleModeIndices == 0..(Len(cycleModes) - 1)
InitReset == InitFrom({NoFile}, 1..maxRandomPatterns)

TickReset == Tick(<<0, 10001>>)
IdleResetAnyMode == idleResetFor(CycleModeIndices)

NextReset ==
    \/ TickReset
    \/ clockTrigger
    \/ updateScreen
    \/ oledShow
    \/ PollPatternLengthIdle
    \/ PollFirstStepIdle
    \/ SlewTestIdle
    \/ slewNext
    \/ slewWrite
    \/ idleTest
    \/ IdleResetAnyMode

SpecReset == InitReset /\ [][NextReset]_vars

(***************************************************************************)
(* Properties.                                                             *)
(***************************************************************************)
\* A rising edge has just been handled past its output loop
AfterRise == lastOp.op = "rise"

\* C1: after every clock rising edge, currentStep lies in
\* [firstStep, firstStep + patternLength - 1], whatever the input poll did
\* to firstStep and patternLength between the edges.
C1_StepInWindowAfterEdge ==
    AfterRise => (firstStep <= step /\ step <= (firstStep + patternLength) - 1)

\* C2: firstStep + patternLength <= maxStepLength in every state in which a
\* clock edge can be handled, the states between the two polls included.
C2_CapacityInvariant == firstStep + patternLength <= maxStepLength

\* C3: every bank read of the clock-edge handler uses a slot index in
\* [0, numPatterns - 1] and a step index in [0, maxStepLength - 1].
C3_ReadsInRange ==
    \A r \in reads : /\ r[1] \in 0..(numCvPatterns - 1)
                     /\ r[2] \in 0..(maxStepLength - 1)

\* C5: with cycle mode enabled, a rising edge that wraps the step advances
\* the cycle cursor by one modulo the length of the cycle code and selects
\* the slot the code names at the new cursor; between such edges only a
\* button, an idle reset or a restart changes the cursor or the slot, so the
\* slots visited over consecutive loops are the digits of the code in order.
C5_CycleAdvance ==
    [][ /\ (lastOp'.op = "rise" /\ lastOp'.wrap /\ cycleMode)
            => /\ cycleStep' = (cycleStep + 1) % Len(cycleCode)
               /\ CvPattern' = cycleCode[cycleStep' + 1]
        /\ (lastOp'.op \in {"rise", "riseError", "main", "tick", "fall",
                            "slewNext", "slewExhausted", "slewWrite"}
              /\ ~(lastOp'.wrap /\ cycleMode))
            => UNCHANGED <<cycleStep, CvPattern>>
      ]_vars

\* C5 witness: the cursor has wrapped from the last digit to the first
C5_Witness ==
    /\ AfterRise /\ lastOp.wrap /\ cycleMode
    /\ cycleStep = 0 /\ clockStep >= Len(cycleCode)

\* C4: the control loop never halts on an arithmetic error: the resolution
\* used as divisor in the emit-cadence test is at least 1 in every state.
C4_ResolutionPositive == slewResolution >= 1 /\ pc # "halted"

\* C6: when the clock has been idle for more than resetTimeout with
\* clockStep # 0, the poll loop performs the idle reset, and it performs it
\* once: no second reset before a new rising edge has been handled.
C6_IdleResetExactlyOnce ==
    /\ [](resets <= 1)
    /\ [](IdleTimedOut => <>(~IdleTimedOut))

\* C7: every channel of the bank holds exactly numPatterns slots.
C7_BankLengths ==
    \A c \in 1..NumChannels : Len(cvPatternBanks[c]) = numCvPatterns

\* C8: an append request at numPatterns = maxRandomPatterns adds no slot and
\* changes neither numPatterns, the slot nor the snapshot; hence
\* numPatterns <= maxRandomPatterns in every state.
C8_CeilingHolds == numCvPatterns <= maxRandomPatterns

\* C9: a round of generation that fails leaves the bank, numPatterns, the
\* slot and the persisted snapshot as they were.
C9_FailureMutatesNothing ==
    [][lastOp'.op \in {"appendFailed", "regenerateFailed"}
          => UNCHANGED <<cvPatternBanks, numCvPatterns, CvPattern, saved>>]_vars

\* C10: the values written to channel 0 since the last curve installation
\* are a prefix of the installed curve, in order.
C10_WritesArePrefix ==
    /\ Len(cv0Log) <= Len(slewGeneratorObject.arr)
    /\ \A i \in 1..Len(cv0Log) : cv0Log[i] = slewGeneratorObject.arr[i]

\* C11: the main loop never writes to channel 0 a value pulled from a curve
\* that a rising edge has replaced since the pull: every value it writes is
\* the element the cursor of the installed curve yielded last.
C11_NoStaleWrite ==
    [][lastOp'.op = "slewWrite"
          => /\ slewGeneratorObject.pos >= 1
             /\ cvs'[0] = slewGeneratorObject.arr[slewGeneratorObject.pos]]_vars

\* C12: a due poll that finds the curve exhausted raises no error, yields 0,
\* writes nothing to channel 0, stamps the emission time and leaves the
\* curve exhausted; a due poll of an exhausted curve always takes this
\* course, and the curve stays exhausted until a rising edge installs one.
CurveExhausted == slewGeneratorObject.pos >= Len(slewGeneratorObject.arr)

C12_ExhaustedYieldsNeutral ==
    [][/\ lastOp'.op = "slewExhausted"
          => /\ pc' = "idleTest"
             /\ v' = <<RatOfInt(0)>>
             /\ emitStamped'
             /\ UNCHANGED <<cvs, cv0Log, slewGeneratorObject>>
       /\ (pc = "slewNext" /\ pc' # "slewNext" /\ CurveExhausted)
          => lastOp'.op = "slewExhausted"
       /\ (CurveExhausted /\ lastOp'.op \notin {"rise", "boot"})
          => CurveExhausted']_vars

C12_Witness ==
    /\ lastOp.op = "slewExhausted"
    /\ clockStep >= 2
    /\ Len(slewGeneratorObject.arr) >= 1
    /\ cv0Log = slewGeneratorObject.arr

LinearCall ==
    /\ shapeCall # NoCall
    /\ shapeCall[1].shape = 1
    /\ shapeCall[1].num >= 1

C14_LinearValues ==
    LinearCall =>
        LET c == shapeCall[1]
            w == c.result.w
        IN  /\ c.result.ok
            /\ Len(w) = c.num - 1
            /\ \A i \in 0..(c.num - 2) :
                   /\ w[i + 1][2] > 0
                   /\ w[i + 1][1] * c.num =
                          (c.start * c.num + (c.stop - c.start) * i) * w[i + 1][2]
            /\ (c.start = 0 /\ c.stop = 10000 /\ c.num = 5)
                   => w = <<RatOfInt(0), RatOfInt(2000), RatOfInt(4000),
                            RatOfInt(6000)>>

C14_Witness ==
    /\ LinearCall
    /\ shapeCall[1].start = 0
    /\ shapeCall[1].stop = 10000
    /\ shapeCall[1].num = 5

\* C15: every shape called with start = stop = v returns a sequence whose
\* every element is v, for every count.
C15_ConstantOnEquality ==
    (shapeCall # NoCall /\ shapeCall[1].start = shapeCall[1].stop) =>
        LET c == shapeCall[1]
        IN  /\ c.result.ok
            /\ \A i \in 1..Len(c.result.w) : c.result.w[i] = RatOfInt(c.start)

ButtonOps ==
    {"regenerate", "regenerateFailed", "shape", "previous", "toggleCycle",
     "next", "append", "appendFailed", "appendRefused"}

C17_ChangesArePersisted ==
    [][(/\ lastOp'.op \in ButtonOps
        /\ \/ numCvPatterns' # numCvPatterns
           \/ cvPatternBanks' # cvPatternBanks
           \/ slewShape' # slewShape)
          => /\ saved'.cvPatternBanks = cvPatternBanks'
             /\ saved'.slewShape = slewShape']_vars

\* C18: each of step, clockStep, cycleStep, CvPattern, slewResolution,
\* msBetweenClocks and the installed curve is written only by the clock
\* handler, and the bank only by button handlers (construction aside).
SequencerFields == <<step, clockStep, cycleStep>>
SlewFields == <<slewResolution, msBetweenClocks, slewArray,
                slewGeneratorObject.arr>>

C18_SingleWriter ==
    [][/\ (SequencerFields' # SequencerFields \/ CvPattern' # CvPattern
            \/ SlewFields' # SlewFields)
          => lastOp'.op \in {"rise", "boot"}
       /\ cvPatternBanks' # cvPatternBanks
          => lastOp'.op \in ButtonOps \cup {"boot"}]_vars

\* C18 as amended: the slew fields are written only by the clock handler
\* and the bank only by button handlers; step, clockStep and cycleStep are
\* written by the clock handler and the idle reset of the main loop, and
\* CvPattern by the clock handler, the idle reset and the button handlers.
C18_WritersPerField ==
    [][/\ SlewFields' # SlewFields => lastOp'.op \in {"rise", "boot"}
       /\ cvPatternBanks' # cvPatternBanks
          => lastOp'.op \in ButtonOps \cup {"boot"}
       /\ SequencerFields' # SequencerFields
          => lastOp'.op \in {"rise", "idleReset", "boot"}
       /\ CvPattern' # CvPattern
          => lastOp'.op \in {"rise", "idleReset", "boot"} \cup ButtonOps]_vars

C18_Witness ==
    /\ lastOp.op = "idleReset"
    /\ numCvPatterns = maxRandomPatterns
    /\ slewResolution # InitialSlewResolution

\* C19: a rising edge raises the end-of-cycle pulse exactly when the step
\* before its advance is firstStep + patternLength - 1, a falling edge
\* lowers it, and nothing else changes it.
C19_PulseFollowsLastStep ==
    [][/\ lastOp'.op \in {"rise", "riseError"}
          => IF step = (firstStep + patternLength) - 1
             THEN cvs'[5] = 1
             ELSE cvs'[5] = cvs[5]
       /\ lastOp'.op = "fall" => cvs'[5] = 0
       /\ lastOp'.op \notin {"rise", "riseError", "fall", "boot"}
          => cvs'[5] = cvs[5]]_vars

\* C20: every rising edge writes to each of channels 1..4 the bank value at
\* (channel, CvPattern, step) as they were before the edge and leaves
\* channel 0 alone; the main loop leaves channels 1..5 alone.
C20_EdgeWritesChannels ==
    [][/\ lastOp'.op \in {"rise", "riseError"}
          => /\ \A c \in 1..4 :
                    /\ ReadOK(c, CvPattern, step)
                    /\ cvs'[c] = cvPatternBanks[c + 1][CvPattern + 1][step + 1]
             /\ cvs'[0] = cvs[0]
       /\ lastOp'.op \in {"main", "slewNext", "slewExhausted", "slewWrite",
                           "idleReset"}
          => \A c \in 1..5 : cvs'[c] = cvs[c]]_vars

CurveBuildingEdge == lastOp.op = "rise" /\ BuildsCurve(clockStep)

\* C22: on every curve-building edge slewResolution is
\* min(40, floor(msBetweenClocks / 15)), a non-decreasing function of the
\* interval that never exceeds 40.
C22_ResolutionOfInterval ==
    [][CurveBuildingEdge'
          => /\ slewResolution' =
                    Min(MaxSlewResolution, msBetweenClocks' \div MsPerSlewPoint)
             /\ slewResolution' <= MaxSlewResolution]_vars

\* C23: on every curve-building edge msBetweenClocks is the time that has
\* passed since the previous rising edge, and it is never negative, also
\* when the millisecond counter has wrapped around between the two edges.
C23_IntervalIsElapsedTime ==
    [][CurveBuildingEdge'
          => /\ msBetweenClocks' = elapsed
             /\ msBetweenClocks' >= 0]_vars

\* C24: while patternLength = 2 every curve-building edge hands the two
\* fixed extremes to the selected shape as (start, stop), whatever the bank
\* holds, and the stop of one such edge's call is the start of the next.
C24_ExtremesAlternate ==
    [][(CurveBuildingEdge' /\ patternLength = 2)
          => /\ shapeCall' # NoCall
             /\ shapeCall'[1].shape = slewShape
             /\ shapeCall'[1].num = slewResolution'
             /\ shapeCall'[1].start # shapeCall'[1].stop
             /\ {shapeCall'[1].start, shapeCall'[1].stop}
                    = {voltageExtremes[1], voltageExtremes[2]}
             /\ extremeCall # NoCall
                    => shapeCall'[1].start = extremeCall[2]]_vars

\* C24 witness: the second of two such edges, from 0 V to 10 V, after an
\* edge that built its curve from the bank
C24_Witness ==
    /\ CurveBuildingEdge
    /\ patternLength = 2
    /\ shapeCall # NoCall
    /\ extremeCall = <<voltageExtremes[1], voltageExtremes[2]>>
    /\ clockStep = MaxClockStep

\* C25: for every (start, stop, count) with count >= 1 each shape returns a
\* list of count - 1 values, except step-up/exp-down with stop > start and
\* the four cosine shapes, which return count values; the list is the one
\* the shape gives for these three arguments in any state.
ShapeLength(shape, start, stop, num) ==
    IF shape >= 6 \/ (shape = 5 /\ stop > start) THEN num ELSE num - 1

C25_ShapeLengths ==
    (shapeCall # NoCall /\ shapeCall[1].num >= 1) =>
        LET c == shapeCall[1]
        IN  /\ c.result.ok
            /\ Len(c.result.w) = ShapeLength(c.shape, c.start, c.stop, c.num)
            /\ Len(c.result.w) \in {c.num - 1, c.num}
            /\ c.result = slewShapes(c.shape, c.start, c.stop, c.num)

\* C25 witness: step-up/exp-down rising, the branch that returns count values
C25_Witness ==
    /\ shapeCall # NoCall
    /\ shapeCall[1].shape = 5
    /\ shapeCall[1].stop > shapeCall[1].start
    /\ shapeCall[1].num = MaxShapeNum
    /\ Len(shapeCall[1].result.w) = MaxShapeNum

\* C26: ramp and flat-top saw mirror each other: for e >= s ramp returns
\* v(i) = s + (e - s) / n * i for i = 1..n-1 and saw returns n - 1 values
\* equal to e; for e < s ramp returns n - 1 values equal to e and saw the
\* values v(i), i = 1..n-1.
SlopedCall(c) ==
    \/ c.shape = 2 /\ c.stop >= c.start
    \/ c.shape = 3 /\ c.stop < c.start

C26_RampSawMirror ==
    (shapeCall # NoCall /\ shapeCall[1].shape \in {2, 3}
        /\ shapeCall[1].num >= 1) =>
        LET c == shapeCall[1]
            w == c.result.w
        IN  /\ c.result.ok
            /\ Len(w) = c.num - 1
            /\ \A i \in 1..(c.num - 1) :
                   IF SlopedCall(c)
                   THEN /\ w[i][2] > 0
                        /\ w[i][1] * c.num =
                             (c.start * c.num + (c.stop - c.start) * i) * w[i][2]
                   ELSE w[i] = RatOfInt(c.stop)

\* C26 witness: a falling saw, 10 V to 0 V in MaxShapeNum points
C26_Witness ==
    /\ shapeCall # NoCall
    /\ shapeCall[1].shape = 3
    /\ shapeCall[1].start = 10000
    /\ shapeCall[1].stop = 0
    /\ shapeCall[1].num = MaxShapeNum
    /\ Len(shapeCall[1].result.w) = MaxShapeNum - 1

\* The call takes the curved branch of log-up/step-down or step-up/exp-down
CurvedCall(c) ==
    \/ c.shape = 4 /\ c.stop >= c.start
    \/ c.shape = 5 /\ c.stop <= c.start

\* q is the value 1 - (e - s) / i + (e - 1) of the call c, in mV
IsLogValue(q, c, i) ==
    /\ q[2] > 0
    /\ q[1] * i = (c.stop * i - (c.stop - c.start)) * q[2]

\* The other branch: n - 1 (log-up/step-down) or n (step-up/exp-down)
\* values equal to e
FlatBranch(c) ==
    /\ Len(c.result.w) = IF c.shape = 4 THEN c.num - 1 ELSE c.num
    /\ \A k \in 1..Len(c.result.w) : c.result.w[k] = RatOfInt(c.stop)

LogCall ==
    /\ shapeCall # NoCall
    /\ shapeCall[1].shape \in {4, 5}
    /\ shapeCall[1].num >= 1

\* C27: in the curved branch of log-up/step-down (e >= s) and step-up/exp-down
\* (e <= s) the values are v = 1 - (e - s) / i + (e - 1) for i = 1..n-1, one
\* value per index; the other branch returns n - 1, respectively n, values
\* equal to e.
C27_LogValuesFromOne ==
    LogCall =>
        LET c == shapeCall[1]
        IN  /\ c.result.ok
            /\ IF CurvedCall(c)
               THEN /\ Len(c.result.w) = c.num - 1
                    /\ \A i \in 1..(c.num - 1) :
                           IsLogValue(c.result.w[i], c, i)
               ELSE FlatBranch(c)

\* C27 as amended: the index runs over 0..n-2 and is clamped to at least 1,
\* so the values are those of i = 1, 1, 2, .., n-2.
C27_LogValuesClamped ==
    LogCall =>
        LET c == shapeCall[1]
        IN  /\ c.result.ok
            /\ IF CurvedCall(c)
               THEN /\ Len(c.result.w) = c.num - 1
                    /\ \A i \in 0..(c.num - 2) :
                           IsLogValue(c.result.w[i + 1], c, Max(i, 1))
               ELSE FlatBranch(c)

\* C27 witness: log-up/step-down from 0 V to 10 V in MaxShapeNum points,
\* which begins with the value of index 1 twice
C27_Witness ==
    /\ LogCall
    /\ shapeCall[1].shape = 4
    /\ shapeCall[1].start = 0
    /\ shapeCall[1].stop = 10000
    /\ shapeCall[1].num = MaxShapeNum
    /\ shapeCall[1].result.w[1] = shapeCall[1].result.w[2]
    /\ shapeCall[1].result.w[3] # shapeCall[1].result.w[2]

\* The outcomes of a release of button 1
Button1Ops == {"previous", "shape", "regenerate", "regenerateFailed"}

\* C28: a release of button 1 after a press of d ms does exactly one of
\* three things: d <= 300 selects the previous slot (nothing at slot 0),
\* 300 < d <= 2000 advances the slew shape, d > 2000 regenerates the
\* current slot; a press longer than 2000 ms never advances the slew shape.
C28_PressBands ==
    [][lastOp'.op \in Button1Ops
          => /\ lastOp'.press <= 300
                => /\ lastOp'.op = "previous"
                   /\ CvPattern' = IF CvPattern = 0 THEN 0 ELSE CvPattern - 1
                   /\ UNCHANGED <<slewShape, cvPatternBanks>>
             /\ (lastOp'.press > 300 /\ lastOp'.press <= 2000)
                => /\ lastOp'.op = "shape"
                   /\ slewShape' = NextSlewShape(slewShape)
                   /\ UNCHANGED <<CvPattern, cvPatternBanks>>
             /\ lastOp'.press > 2000
                => /\ lastOp'.op \in {"regenerate", "regenerateFailed"}
                   /\ UNCHANGED <<CvPattern, slewShape>>]_vars

\* C29: a successful regeneration of the current slot overwrites, in every
\* channel, only the pattern at index CvPattern: numCvPatterns, CvPattern,
\* step and every other slot of every channel stay as they were, and each
\* new pattern has exactly maxStepLength steps.
C29_RegenerateFrame ==
    [][lastOp'.op = "regenerate"
          => /\ UNCHANGED <<numCvPatterns, CvPattern, step>>
             /\ \A c \in 1..NumChannels :
                    /\ Len(cvPatternBanks'[c]) = Len(cvPatternBanks[c])
                    /\ CvPattern + 1 \in 1..Len(cvPatternBanks[c])
                    /\ \A k \in 1..Len(cvPatternBanks[c]) :
                           k # CvPattern + 1
                               => cvPatternBanks'[c][k] = cvPatternBanks[c][k]
                    /\ Len(cvPatternBanks'[c][CvPattern + 1]) = maxStepLength
                    /\ \A s \in 1..maxStepLength :
                           cvPatternBanks'[c][CvPattern + 1][s]
                               \in 0..(1000 * maxCvVoltage)]_vars

\* C29 witness: the last slot regenerated with other values in every channel
C29_Witness ==
    /\ lastOp.op = "regenerate"
    /\ CvPattern = maxRandomPatterns - 1
    /\ numCvPatterns = maxRandomPatterns
    /\ \A c \in 1..NumChannels :
           cvPatternBanks[c][CvPattern + 1]
               # initCvPatternBanks(maxRandomPatterns)[c][CvPattern + 1]

PollPatternLengthPoll == getPatternLength(AinSamples, AllKnobs)

NextPoll ==
    \/ updateScreen
    \/ oledShow
    \/ PollPatternLengthPoll
    \/ PollFirstStepSeq
    \/ SlewTestSeq
    \/ slewNext
    \/ slewWrite
    \/ idleTest

SpecPoll == InitSeq /\ [][NextPoll]_vars

(***************************************************************************)
(* C31: the two polls of the controls keep the window inside the capacity  *)
(* and are idempotent.                                                     *)
(***************************************************************************)
LengthPoll == lastOp'.op = "main" /\ pc = "getPatternLength" /\ pc' = "getFirstStep"
FirstStepPoll == lastOp'.op = "main" /\ pc = "getFirstStep" /\ pc' = "slewTest"
InDeadzone(val) == val * 10 <= minAnalogInputVoltageTenths

\* C31: for all control readings, after the pattern-length poll patternLength
\* is in 1..maxStepLength and the modulation input contributes only above the
\* deadzone (at or below it the length is the knob position plus one, above
\* it at least that); after the first-step poll firstStep is in
\* 0..maxStepLength - patternLength; a poll that finds the value its readings
\* give already in place changes nothing and leaves the dirty flag as it was.
C31_PollsBoundedIdempotent ==
    [][ /\ LengthPoll =>
             /\ patternLength' \in 1..maxStepLength
             /\ InDeadzone(lastOp'.ain) => patternLength' = lastOp'.knob + 1
             /\ ~InDeadzone(lastOp'.ain) =>
                    patternLength' >= Min(lastOp'.knob + 1, maxStepLength)
             /\ patternLength' = patternLength =>
                    screenRefreshNeeded' = screenRefreshNeeded
             /\ firstStep' = firstStep
        /\ FirstStepPoll =>
             /\ firstStep' \in 0..(maxStepLength - patternLength)
             /\ firstStep' = lastOp'.knob
             /\ firstStep' = firstStep =>
                    screenRefreshNeeded' = screenRefreshNeeded
             /\ patternLength' = patternLength ]_vars

\* Both polls have been repeated on a full-length window reached through the
\* modulation input, and the display is clean
C31_Witness ==
    /\ pc = "slewTest"
    /\ lastOp.op = "main"
    /\ patternLength = maxStepLength
    /\ firstStep = 0
    /\ ~screenRefreshNeeded

(***************************************************************************)
(* Specification for the selection state: presses of both buttons in the   *)
(* short and medium bands, a press of button 1 past the long band, and a   *)
(* power cycle.                                                            *)
(***************************************************************************)
OverlongPress == 5000
B1Select == b1Pressed({ShortPress, MediumPress, OverlongPress}, {})
B2Select == b2Pressed({ShortPress, MediumPress}, {})

NextSelect == B1Select \/ B2Select \/ Restart
SpecSelect == InitButton /\ [][NextSelect]_vars

(***************************************************************************)
(* C32: the shape index stays inside the table of shapes and moves only by *)
(* the shape-advance press.                                                *)
(***************************************************************************)
RECURSIVE ShapeAdvances(_, _)
ShapeAdvances(k, n) == IF n = 0 THEN k ELSE ShapeAdvances(NextSlewShape(k), n - 1)

\* C32: slewShape is in 0..9 in every reachable state; a shape-advance press
\* takes index k to (k + 1) mod 10, so ten of them in a row bring the index
\* back; every other step that is not a start of the program leaves it alone.
C32_ShapeIndexCycles ==
    /\ [](slewShape \in 0..(NumSlewShapes - 1))
    /\ [](ShapeAdvances(slewShape, NumSlewShapes) = slewShape)
    /\ [][ /\ lastOp'.op = "shape" =>
                slewShape' = (slewShape + 1) % NumSlewShapes
           /\ lastOp'.op \notin {"shape", "boot"} =>
                slewShape' = slewShape ]_vars

\* A shape-advance press has just wrapped the index from the last shape to
\* the first, after other presses and a power cycle
C32_Witness ==
    /\ lastOp.op = "shape"
    /\ slewShape = 0
    /\ saved.slewShape = 0
    /\ restarts > 0
    /\ cycleMode

(***************************************************************************)
(* Specification for the output range: a start with each of the shapes     *)
(* selected, clock edges a fixed interval apart, windows of two and three  *)
(* steps, and the main loop emitting the curve.                            *)
(***************************************************************************)
VoltInterval == 45
\* Snapshots left by an earlier run, one for each shape
VoltFiles == {EarlierFile(FALSE, 0, shape) : shape \in 0..(NumSlewShapes - 1)}
InitVolt == InitFrom(VoltFiles, {maxRandomPatterns})
TickVolt == Tick(<<0, VoltInterval>>)
PollPatternLengthVolt == getPatternLength({0}, {1, 2})
PollFirstStepVolt == getFirstStep({0})
SlewTestVolt == slewTest({VoltInterval})

NextVolt ==
    \/ TickVolt
    \/ clockTrigger
    \/ updateScreen
    \/ oledShow
    \/ PollPatternLengthVolt
    \/ PollFirstStepVolt
    \/ SlewTestVolt
    \/ slewNext
    \/ slewWrite
    \/ idleTest

SpecVolt == InitVolt /\ [][NextVolt]_vars

(***************************************************************************)
(* C33: the range of the curve values and of channel 0.                    *)
(***************************************************************************)
\* the rational p lies in [0, top] millivolts
RatWithin(p, top) == p[1] >= 0 /\ p[1] <= top * p[2]
AllWithin(w, top) == \A i \in 1..Len(w) : RatWithin(w[i], top)
NonCosineShapes == 0..5

\* C33 as stated: every value of the active curve and the value on channel 0
\* lie in [0, maxCvVoltage]
C33_CurveWithinMaxCv ==
    /\ AllWithin(slewArray, 1000 * maxCvVoltage)
    /\ RatWithin(cvs[0], 1000 * maxCvVoltage)

\* C33 amended: a curve built from two pattern values (patternLength # 2) by a
\* non-cosine shape lies in [0, maxCvVoltage]; a curve of the 2-step flip-flop
\* runs between the fixed extremes and lies in [0, 10 V]; so every value of
\* the active curve and every value written to channel 0 is in [0, 10 V].
C33_CurveWithinExtremes ==
    /\ [](AllWithin(slewArray, 10000))
    /\ [](RatWithin(cvs[0], 10000))
    /\ [][ (/\ lastOp'.op = "rise"
            /\ lastOp'.curve = "built"
            /\ patternLength # 2
            /\ slewShape \in NonCosineShapes)
           => AllWithin(slewArray', 1000 * maxCvVoltage) ]_vars

\* The upper extreme of a flip-flop curve is on channel 0, and a sloped
\* non-cosine curve built from pattern values is active
C33_Witness ==
    /\ pc = "idleTest"
    /\ lastOp.op = "slewWrite"
    /\ cvs[0] = RatOfInt(10000)
    /\ slewShape \in NonCosineShapes

C33_WitnessPattern ==
    /\ lastOp.op = "rise"
    /\ lastOp.curve = "built"
    /\ patternLength = 3
    /\ slewShape = 1
    /\ Len(slewArray) = 2
    /\ slewArray[1] # slewArray[2]

(***************************************************************************)
(* Specification for the slot index: a fresh or a loaded bank, short       *)
(* presses of both buttons with appends that succeed or fail to allocate,  *)
(* clock edges that wrap a one-step window, the idle reset and a power     *)
(* cycle.                                                                  *)
(***************************************************************************)
SlotFails == {0}
InitSlot == InitFrom({NoFile, EarlierFile(TRUE, 0, 0)}, {maxRandomPatterns - 1})
\* the handlers run between two passes of the loop
B1Slot == pc = "updateScreen" /\ b1Pressed({ShortPress}, {})
B2Slot == pc = "updateScreen" /\ b2Pressed({ShortPress}, SlotFails)
RestartSlot == pc = "updateScreen" /\ Restart
ClockSlot == pc = "updateScreen" /\ clockTrigger
TickSlot == pc = "updateScreen" /\ TickReset

NextSlot ==
    \/ TickSlot
    \/ ClockSlot
    \/ B1Slot
    \/ B2Slot
    \/ RestartSlot
    \/ updateScreen
    \/ oledShow
    \/ PollPatternLengthIdle
    \/ PollFirstStepIdle
    \/ SlewTestIdle
    \/ slewNext
    \/ slewWrite
    \/ idleTest
    \/ idleReset

SpecSlot == InitSlot /\ [][NextSlot]_vars

\* C34: CvPattern is in 0..numCvPatterns - 1 in every reachable state, for any
\* sequence of short presses on either button, appends that succeed or fail,
\* cycle-mode wraps and idle resets, from a loaded or a freshly initialized
\* bank.
C34_SlotWithinCount == CvPattern \in 0..(numCvPatterns - 1)

\* After a failed append and a power cycle an append has selected the last
\* slot the bank can hold
C34_Witness ==
    /\ lastOp.op = "append"
    /\ CvPattern = maxRandomPatterns - 1
    /\ numCvPatterns = maxRandomPatterns
    /\ allocFailures > 0
    /\ restarts > 0

\* An idle reset has returned the slot to the first digit of the cycle code
C34_WitnessReset ==
    /\ lastOp.op = "idleReset"
    /\ cycleMode
    /\ CvPattern = 0
    /\ clockStep = 0

\* C35: a rising edge that finds the pulse channel low wraps the step back to
\* firstStep exactly when it raises the end-of-cycle pulse, also when the
\* input poll has shrunk patternLength or moved firstStep since the edge
\* before.
C35_WrapIffPulse ==
    [][(lastOp'.op = "rise" /\ cvs[5] = 0)
       => (lastOp'.wrap <=> cvs'[5] = 1)]_vars

(***************************************************************************)
(* Specification for the continuity of curves: cycle mode restored from a  *)
(* snapshot, a window of three steps, short presses of button 2, clock     *)
(* edges and the main loop.                                                *)
(***************************************************************************)
ContInterval == 30
InitCont == InitFrom({EarlierFile(TRUE, 0, 0)}, {maxRandomPatterns})
TickCont == Tick(<<0, ContInterval>>)
PollPatternLengthCont == getPatternLength({0}, {2})
PollFirstStepCont == getFirstStep({0})
B2Cont == b2Pressed({ShortPress}, {})

NextCont ==
    \/ TickCont
    \/ clockTrigger
    \/ B2Cont
    \/ updateScreen
    \/ oledShow
    \/ PollPatternLengthCont
    \/ PollFirstStepCont
    \/ SlewTestIdle
    \/ slewNext
    \/ slewWrite
    \/ idleTest

SpecCont == InitCont /\ [][NextCont]_vars

\* C36: of two consecutive curve-building rising edges with patternLength # 2
\* and no button press or input change between them, the second passes to the
\* shape function as start the voltage the first passed as stop, also when
\* the second wraps the step and cycle mode changes CvPattern.
C36_CurvesContinuous ==
    [][(/\ lastOp'.op = "rise"
        /\ lastOp'.curve = "built"
        /\ patternLength # 2
        /\ prevStop # NoCall)
       => shapeCall'[1].start = prevStop[1]]_vars

\* C37: the idle reset never undoes a clock edge: the resets are written only
\* while the idle-timeout condition still holds, so an edge handled between
\* the test of the condition and the resets keeps its step advance and its
\* increment of clockStep, and after a rising edge clockStep stays >= 1 until
\* resetTimeout ms have passed without a further edge.
C37_ResetKeepsEdge ==
    [][lastOp'.op = "idleReset"
       => /\ elapsed > resetTimeout
          /\ lastOp.op = "rise" => (clockStep' = clockStep /\ step' = step)]_vars

\* C38: no display update is lost: a redraw never clears a dirty mark that a
\* handler set after the redraw had read the displayed fields, so the mark a
\* clock edge sets while the redraw is in progress is still set when the
\* redraw ends and a later redraw shows the new step.
C38_RedrawKeepsLaterMark ==
    [][(pc = "oledShow" /\ pc' # "oledShow" /\ lastOp.op = "rise")
       => screenRefreshNeeded']_vars

\* C39: after every button handler the persisted snapshot holds the cycleMode
\* and the CvPattern that are in memory, so that a restart restores the
\* cycle-mode toggle and the slot of the last press.
C39_SelectionPersisted ==
    [][lastOp'.op \in ButtonOps
       => /\ saved'.cycleMode = cycleMode'
          /\ saved'.CvPattern = CvPattern']_vars

====
